---------------------------- MODULE Spec2Model ----------------------------
(***************************************************************************)
(* Model of src/python/frequency_analysis/frequency_analysis.py: the       *)
(* script that reads GitHub credentials from a .env file, fetches the      *)
(* code-frequency and contributor statistics of one repository, reshapes   *)
(* them into two tables (process_data) and shows three charts (plot_data). *)
(*                                                                         *)
(* Spec      the run of the script (__main__, lines 242-253).              *)
(* SpecPlot  plot_data applied to arbitrary prepared tables.               *)
(***************************************************************************)
EXTENDS Integers, Sequences, FiniteSets

VARIABLES
    pc,               \* the call __main__ is about to make, or "done"
    calls,            \* history: the functions called so far, in order
    responses,        \* history: outcome of each fetch, in order ("ok" / "fail")
    creds,            \* (repo_owner, repo_name, token) returned by load_env_variables
    code_frequency,   \* raw payload of fetch_code_frequency
    commit_activity,  \* raw payload of fetch_commit_activity
    code_df,          \* churn table returned by process_data
    commit_df,        \* commit table returned by process_data
    scaling_factor,   \* local of plot_data
    figs,             \* the figures shown so far (fig.show()), in order
    raised,           \* the exception that ended the run, "none" if none
    exit_code         \* process exit status once pc = "done", -1 while running

vars == <<pc, calls, responses, creds, code_frequency, commit_activity,
          code_df, commit_df, scaling_factor, figs, raised, exit_code>>

---------------------------------------------------------------------------
(* Bounds of the model *)

MaxChurn == 2       \* weekly records in a code-frequency payload
MaxWeeks == 2       \* weekly entries of one contributor record

AdditionValues == {0, 2}
DeletionValues == {0, 3}
CommitCounts   == {0, 2}
Logins         == {"A", "B"}

---------------------------------------------------------------------------
(* Sequence helpers *)

Range(s) == {s[i] : i \in 1..Len(s)}

SeqsUpTo(S, n) == UNION {[1..k -> S] : k \in 0..n}

RECURSIVE Concat(_)
Concat(frames) ==
    IF frames = <<>> THEN <<>> ELSE Head(frames) \o Concat(Tail(frames))

---------------------------------------------------------------------------
(* Floating point values as numpy produces them: a ratio n/d, +-inf, nan *)

Num(n, d) == [k |-> "num", n |-> n, d |-> d]
Inf(sign) == [k |-> "inf", n |-> sign, d |-> 0]
NaN       == [k |-> "nan", n |-> 0, d |-> 0]
FromInt(x) == Num(x, 1)

Sign(x) == IF x > 0 THEN 1 ELSE IF x < 0 THEN -1 ELSE 0

\* a > b on floats; every comparison with nan is False
Gt(a, b) ==
    /\ a.k = "num"
    /\ b.k = "num"
    /\ a.n * b.d > b.n * a.d

\* Python's builtin max(a, b): the first argument unless the second is greater
PyMax(a, b) == IF Gt(b, a) THEN b ELSE a

\* abs() of a scalar
FAbs(a) == IF a.k = "num" THEN Num(IF a.n < 0 THEN -a.n ELSE a.n, a.d) ELSE a

\* bool(x): zero is falsy, everything else (nan included) is truthy
Truthy(a) == ~(a.k = "num" /\ a.n = 0)

\* a / b with numpy scalars: no ZeroDivisionError, x/0 is inf, 0/0 is nan
TrueDiv(a, b) ==
    IF a.k = "nan" \/ b.k = "nan" THEN NaN
    ELSE IF b.n = 0 THEN (IF a.n = 0 THEN NaN ELSE Inf(Sign(a.n)))
    ELSE Num(a.n * b.d * Sign(b.n), a.d * b.n * Sign(b.n))

\* integer column value times a float scalar
Mul(x, f) ==
    IF f.k = "nan" THEN NaN
    ELSE IF f.k = "inf" THEN (IF x = 0 THEN NaN ELSE Inf(Sign(x) * f.n))
    ELSE Num(x * f.n, f.d)

\* Series.max() / Series.min(): nan on an empty series
SeriesMax(s) ==
    IF s = <<>> THEN NaN
    ELSE FromInt(CHOOSE m \in Range(s) : \A x \in Range(s) : x <= m)

SeriesMin(s) ==
    IF s = <<>> THEN NaN
    ELSE FromInt(CHOOSE m \in Range(s) : \A x \in Range(s) : m <= x)

Column(table, f) == [i \in 1..Len(table) |-> table[i][f]]

---------------------------------------------------------------------------
(* Inputs *)

\* the .env file as load_env_variables parses it; URL is the list of path
\* segments  parsed_url.path.strip("/").split("/")  yields, <<>> when unset
EnvFiles ==
    [TOKEN : {"", "t"},
     URL : {<<>>, <<"o", "n">>, <<"repos", "o", "n">>},
     REPO_OWNER : {"", "o"},
     REPO_NAME : {"", "n"}]

\* [epoch_seconds, additions, deletions], one per week
ChurnPayloads ==
    {[i \in 1..Len(ad) |-> <<(i - 1) * 604800, ad[i][1], ad[i][2]>>] :
        ad \in SeqsUpTo(AdditionValues \X DeletionValues, MaxChurn)}

WeekLists ==
    {[i \in 1..Len(cs) |-> [w |-> (i - 1) * 604800, c |-> cs[i]]] :
        cs \in SeqsUpTo(CommitCounts, MaxWeeks)}

\* {author: {login}, weeks: [{w, c}, ...]}; a record may lack either key
ContributorRecords ==
    [has_author : {TRUE}, login : Logins, has_weeks : {TRUE}, weeks : WeekLists]
    \cup [has_author : {TRUE}, login : Logins, has_weeks : {FALSE}, weeks : {<<>>}]
    \cup [has_author : {FALSE}, login : {""}, has_weeks : {TRUE},
          weeks : {<<[w |-> 0, c |-> 2]>>}]

\* payloads of zero, one or two contributor records: an earlier and a later
\* record are enough for every way one record bears on another
ActivityPayloads ==
    {<<>>}
    \cup {<<r>> : r \in ContributorRecords}
    \cup {<<r1, r2>> : r1 \in ContributorRecords, r2 \in ContributorRecords}

---------------------------------------------------------------------------
(* process_data *)

\* pd.to_datetime(..., unit="s"): epoch seconds to a calendar instant
ToDatetime(s) == [date |-> s \div 86400, time |-> s % 86400]

Abs(x) == IF x < 0 THEN -x ELSE x

NoNegation(code_freq) ==
    [i \in 1..Len(code_freq) |->
        [timestamp |-> ToDatetime(code_freq[i][1]),
         additions |-> code_freq[i][2],
         deletions |-> Abs(code_freq[i][3])]]

ProcessCodeFrequency(code_freq) ==
    [i \in 1..Len(code_freq) |->
        [timestamp |-> ToDatetime(code_freq[i][1]),
         additions |-> code_freq[i][2],
         deletions |-> -Abs(code_freq[i][3])]]

\* the body of the loop over one contributor: the exception it raises, or
\* the frame appended to contributors_data
ContributorFrame(contributor) ==
    IF ~contributor.has_author THEN [err |-> "KeyError: 'author'", rows |-> <<>>]
    ELSE IF ~contributor.has_weeks THEN [err |-> "KeyError: 'weeks'", rows |-> <<>>]
    ELSE IF contributor.weeks = <<>> THEN [err |-> "KeyError: 'w'", rows |-> <<>>]
    ELSE [err |-> "none",
          rows |-> [j \in 1..Len(contributor.weeks) |->
                       [timestamp |-> ToDatetime(contributor.weeks[j].w),
                        c |-> contributor.weeks[j].c,
                        author |-> contributor.login]]]

Frames(activity) == [i \in 1..Len(activity) |-> ContributorFrame(activity[i])]

Failing(frames) == {i \in 1..Len(frames) : frames[i].err # "none"}

FirstFailing(frames) == CHOOSE i \in Failing(frames) : \A j \in Failing(frames) : i <= j

SkipMalformed(activity) ==
    LET frames == Frames(activity)
        good == SelectSeq(frames, LAMBDA f : f.err = "none")
    IN  [err |-> "none",
         table |-> Concat([i \in 1..Len(good) |-> good[i].rows])]

ProcessCommitActivity(activity) ==
    LET frames == Frames(activity)
    IN  IF Failing(frames) # {}
        THEN [err |-> frames[FirstFailing(frames)].err, table |-> <<>>]
        ELSE IF frames = <<>>
        THEN [err |-> "ValueError: No objects to concatenate", table |-> <<>>]
        ELSE [err |-> "none",
              table |-> Concat([i \in 1..Len(frames) |-> frames[i].rows])]

---------------------------------------------------------------------------
(* plot_data *)

MaxCommits(commit_table) ==
    LET m == SeriesMax(Column(commit_table, "c"))
    IN  IF Truthy(m) THEN m ELSE FromInt(1)

ScalingFactor(code_table, commit_table) ==
    TrueDiv(MaxCommits(commit_table),
            PyMax(SeriesMax(Column(code_table, "additions")),
                  FAbs(SeriesMin(Column(code_table, "deletions")))))

RECURSIVE Unique(_)
Unique(s) ==
    IF s = <<>> THEN <<>>
    ELSE <<Head(s)>> \o Unique(SelectSeq(Tail(s), LAMBDA x : x # Head(s)))

Trace(label, who, xs, ys) == [label |-> label, who |-> who, x |-> xs, y |-> ys]

Scaled(col, f) == [i \in 1..Len(col) |-> Mul(col[i], f)]
Raw(col) == [i \in 1..Len(col) |-> FromInt(col[i])]

ContributorTraces(commit_table, label) ==
    LET contributors == Unique(Column(commit_table, "author"))
    IN  [i \in 1..Len(contributors) |->
            LET contributor_data ==
                    SelectSeq(commit_table, LAMBDA r : r.author = contributors[i])
            IN  Trace(label, contributors[i],
                      Column(contributor_data, "timestamp"),
                      Raw(Column(contributor_data, "c")))]

OverlayFigure(code_table, commit_table, f) ==
    [title |-> "Code frequency withing contributor activity",
     traces |->
        <<Trace("Additions (scaled)", "", Column(code_table, "timestamp"),
                Scaled(Column(code_table, "additions"), f)),
          Trace("Deletions (scaled)", "", Column(code_table, "timestamp"),
                Scaled(Column(code_table, "deletions"), f))>>
        \o ContributorTraces(commit_table, "Commits by: ")]

RawCodeFrequencyFigure(code_table, f) ==
    [title |-> "Raw code frequency",
     traces |->
        <<Trace("Additions", "", Column(code_table, "timestamp"),
                Raw(Column(code_table, "additions"))),
          Trace("Additions (scaled)", "", Column(code_table, "timestamp"),
                Raw(Column(code_table, "additions"))),
          Trace("Deletions (scaled)", "", Column(code_table, "timestamp"),
                Scaled(Column(code_table, "deletions"), f))>>]

RawCommitActivityFigure(commit_table) ==
    [title |-> "Raw commit activity",
     traces |-> ContributorTraces(commit_table, "Commits by ")]

---------------------------------------------------------------------------
(* __main__ *)

NoCreds == [owner |-> "", name |-> "", token |-> ""]
Unset == [k |-> "unset", n |-> 0, d |-> 0]

\* load_env_variables: the triple it computes before the final check
Credentials(env_vars) ==
    LET fromUrl == Len(env_vars.URL) = 3
        owner0 == IF fromUrl THEN env_vars.URL[2] ELSE ""
        name0 == IF fromUrl THEN env_vars.URL[3] ELSE ""
        fallback == owner0 = "" \/ name0 = ""
    IN  [owner |-> IF fallback THEN env_vars.REPO_OWNER ELSE owner0,
         name |-> IF fallback THEN env_vars.REPO_NAME ELSE name0,
         token |-> env_vars.TOKEN]

\* the statement __main__ runs after a fetch: the next call inside the try
\* block, or the except clause, after which the script ends
FetchBothRegardless(stage, ok) ==
    IF stage = "fetch_code_frequency" THEN "fetch_commit_activity"
    ELSE IF ok THEN "process_data" ELSE "done"

AfterFetch(stage, ok) ==
    IF ~ok THEN "done"
    ELSE IF stage = "fetch_code_frequency" THEN "fetch_commit_activity"
    ELSE "process_data"

Init ==
    /\ pc = "ensure_env_file"
    /\ calls = <<>>
    /\ responses = <<>>
    /\ creds = NoCreds
    /\ code_frequency = <<>>
    /\ commit_activity = <<>>
    /\ code_df = <<>>
    /\ commit_df = <<>>
    /\ scaling_factor = Unset
    /\ figs = <<>>
    /\ raised = "none"
    /\ exit_code = -1

\* exit() with no argument: SystemExit(None), status 0
Exit ==
    /\ pc' = "done"
    /\ raised' = "SystemExit"
    /\ exit_code' = 0

EnsureEnvFile ==
    /\ pc = "ensure_env_file"
    /\ calls' = Append(calls, "ensure_env_file")
    /\ \E exists \in BOOLEAN :
          IF exists
          THEN /\ pc' = "load_env_variables"
               /\ UNCHANGED <<raised, exit_code>>
          ELSE Exit
    /\ UNCHANGED <<responses, creds, code_frequency, commit_activity, code_df,
                   commit_df, scaling_factor, figs>>

LoadEnvVariables ==
    /\ pc = "load_env_variables"
    /\ calls' = Append(calls, "load_env_variables")
    /\ \E env_vars \in EnvFiles :
          LET c == Credentials(env_vars)
          IN  IF c.token = "" \/ c.owner = "" \/ c.name = ""
              THEN Exit /\ UNCHANGED creds
              ELSE /\ creds' = c
                   /\ pc' = "fetch_code_frequency"
                   /\ UNCHANGED <<raised, exit_code>>
    /\ UNCHANGED <<responses, code_frequency, commit_activity, code_df,
                   commit_df, scaling_factor, figs>>

\* the except clause prints the error; the script then ends normally
Fetched(stage, ok) ==
    /\ calls' = Append(calls, stage)
    /\ responses' = Append(responses, IF ok THEN "ok" ELSE "fail")
    /\ pc' = AfterFetch(stage, ok)
    /\ exit_code' = IF pc' = "done" THEN 0 ELSE exit_code
    /\ UNCHANGED raised

FetchCodeFrequency ==
    /\ pc = "fetch_code_frequency"
    /\ \/ \E payload \in ChurnPayloads :
             /\ code_frequency' = payload
             /\ Fetched("fetch_code_frequency", TRUE)
       \/ /\ Fetched("fetch_code_frequency", FALSE)
          /\ UNCHANGED code_frequency
    /\ UNCHANGED <<creds, commit_activity, code_df, commit_df, scaling_factor, figs>>

FetchCommitActivity ==
    /\ pc = "fetch_commit_activity"
    /\ \/ \E payload \in ActivityPayloads :
             /\ commit_activity' = payload
             /\ Fetched("fetch_commit_activity", TRUE)
       \/ /\ Fetched("fetch_commit_activity", FALSE)
          /\ UNCHANGED commit_activity
    /\ UNCHANGED <<creds, code_frequency, code_df, commit_df, scaling_factor, figs>>

\* an exception other than RequestException leaves __main__ uncaught: status 1
ProcessData ==
    /\ pc = "process_data"
    /\ calls' = Append(calls, "process_data")
    /\ LET code_dataframe == ProcessCodeFrequency(code_frequency)
           commits == ProcessCommitActivity(commit_activity)
       IN  IF commits.err # "none"
           THEN /\ raised' = commits.err
                /\ pc' = "done"
                /\ exit_code' = 1
                /\ UNCHANGED <<code_df, commit_df>>
           ELSE /\ code_df' = code_dataframe
                /\ commit_df' = commits.table
                /\ pc' = "plot_data"
                /\ UNCHANGED <<raised, exit_code>>
    /\ UNCHANGED <<responses, creds, code_frequency, commit_activity,
                   scaling_factor, figs>>

PlotData ==
    /\ pc = "plot_data"
    /\ calls' = Append(calls, "plot_data")
    /\ scaling_factor' = ScalingFactor(code_df, commit_df)
    /\ figs' = <<OverlayFigure(code_df, commit_df, scaling_factor'),
                 RawCodeFrequencyFigure(code_df, scaling_factor'),
                 RawCommitActivityFigure(commit_df)>>
    /\ pc' = "done"
    /\ exit_code' = 0
    /\ UNCHANGED <<responses, creds, code_frequency, commit_activity, code_df,
                   commit_df, raised>>

Next ==
    \/ EnsureEnvFile
    \/ LoadEnvVariables
    \/ FetchCodeFrequency
    \/ FetchCommitActivity
    \/ ProcessData
    \/ PlotData

Spec == Init /\ [][Next]_vars

---------------------------------------------------------------------------
(* plot_data on its own: any churn table and any commit table, the empty   *)
(* ones included, as a caller of the function may pass them                *)

ChurnTables == {ProcessCodeFrequency(p) : p \in ChurnPayloads}

CommitTables ==
    {<<>>} \cup
    {Concat([i \in 1..Len(a) |-> ContributorFrame(a[i]).rows]) : a \in ActivityPayloads}

InitPlot ==
    /\ pc = "plot_data"
    /\ calls = <<>>
    /\ responses = <<>>
    /\ creds = NoCreds
    /\ code_frequency = <<>>
    /\ commit_activity = <<>>
    /\ code_df \in ChurnTables
    /\ commit_df \in CommitTables
    /\ scaling_factor = Unset
    /\ figs = <<>>
    /\ raised = "none"
    /\ exit_code = -1

NextPlot == PlotData

SpecPlot == InitPlot /\ [][NextPlot]_vars

---------------------------------------------------------------------------
(* Vocabulary of the properties *)

Called(f) == f \in Range(calls)

\* process_data has returned its two tables
Returned == Called("process_data") /\ raised = "none"

Titles == {figs[i].title : i \in 1..Len(figs)}

\* numeric equality of two floats (nan equals nothing)
FEq(a, b) ==
    \/ a.k = "num" /\ b.k = "num" /\ a.n * b.d = b.n * a.d
    \/ a.k = "inf" /\ b.k = "inf" /\ a.n = b.n

SameSeries(ys, zs) ==
    /\ Len(ys) = Len(zs)
    /\ \A i \in 1..Len(ys) : FEq(ys[i], zs[i])

\* every contributor record carries its author and its weeks list
WellFormed(activity) ==
    \A i \in 1..Len(activity) : activity[i].has_author /\ activity[i].has_weeks

\* the samples one record stands for: one per weekly entry, in input order
SamplesOfRecord(r) ==
    [j \in 1..Len(r.weeks) |->
        [timestamp |-> ToDatetime(r.weeks[j].w), c |-> r.weeks[j].c, author |-> r.login]]

\* the samples of one author expected from a payload, in input order
ExpectedOf(activity, login) ==
    LET recs == SelectSeq(activity, LAMBDA r : r.login = login)
    IN  Concat([i \in 1..Len(recs) |-> SamplesOfRecord(recs[i])])

RECURSIVE TotalWeeks(_)
TotalWeeks(activity) ==
    IF activity = <<>> THEN 0
    ELSE Len(Head(activity).weeks) + TotalWeeks(Tail(activity))

---------------------------------------------------------------------------
(* C1: for a churn payload of non-negative additions and non-negative      *)
(* deletion magnitudes, every sample of the churn table process_data       *)
(* returns has deletions <= 0 <= additions, one sample per record.         *)

ValidChurn(payload) ==
    \A i \in 1..Len(payload) : payload[i][2] >= 0 /\ payload[i][3] >= 0

C1_ChurnSigns ==
    (Returned /\ ValidChurn(code_frequency)) =>
        /\ Len(code_df) = Len(code_frequency)
        /\ \A i \in 1..Len(code_df) :
              code_df[i].deletions <= 0 /\ 0 <= code_df[i].additions

C1_Witness ==
    /\ Returned
    /\ ValidChurn(code_frequency)
    /\ \E i \in 1..Len(code_df) : code_df[i].deletions < 0 /\ code_df[i].additions > 0

(* C2: for every well-formed commit-activity payload process_data returns  *)
(* exactly one sample per (contributor record, weekly entry) pair, tagged  *)
(* with the record's author, each author's samples in input order.         *)

C2_Flatten ==
    (Called("process_data") /\ WellFormed(commit_activity)) =>
        /\ Returned
        /\ Len(commit_df) = TotalWeeks(commit_activity)
        /\ \A login \in Logins :
              SelectSeq(commit_df, LAMBDA r : r.author = login)
                  = ExpectedOf(commit_activity, login)

(* C3: neither conversion raises on empty top-level input: an empty churn  *)
(* payload gives an empty churn table, an empty commit-activity payload an *)
(* empty commit table, both without an error.                              *)

NoEmptyWeeks(activity) ==
    \A i \in 1..Len(activity) : activity[i].weeks # <<>>

C3_EmptyInputs ==
    Called("process_data") =>
        /\ (commit_activity = <<>> => Returned /\ commit_df = <<>>)
        /\ (code_frequency = <<>> /\ WellFormed(commit_activity)
                /\ NoEmptyWeeks(commit_activity)
              => Returned /\ code_df = <<>>)

(* C4: for a churn table with a non-zero peak and any commit table, the    *)
(* scale factor of plot_data is max_commit_count / max(max additions,      *)
(* |min deletions|), max_commit_count being 1 when the commit table is     *)
(* empty or all zero; the factor is a positive number.                     *)

Magnitudes(code_table) ==
    {code_table[i].additions : i \in 1..Len(code_table)}
    \cup {Abs(code_table[i].deletions) : i \in 1..Len(code_table)}

Peak(code_table) ==
    IF code_table = <<>> THEN 0
    ELSE CHOOSE m \in Magnitudes(code_table) : \A x \in Magnitudes(code_table) : x <= m

ClaimedMaxCommits(commit_table) ==
    LET cs == {commit_table[i].c : i \in 1..Len(commit_table)}
    IN  IF cs \subseteq {0} THEN 1 ELSE CHOOSE m \in cs : \A x \in cs : x <= m

C4_ScaleFactor ==
    (Called("plot_data") /\ Peak(code_df) > 0) =>
        /\ FEq(scaling_factor, Num(ClaimedMaxCommits(commit_df), Peak(code_df)))
        /\ Gt(scaling_factor, FromInt(0))

(* C5: when every churn sample has additions = 0 and deletions = 0 the     *)
(* scale computation ends in a DegenerateSeries error, the combined        *)
(* overlay is not produced, the two raw views still are.                   *)

ZeroChurn(code_table) ==
    /\ code_table # <<>>
    /\ \A i \in 1..Len(code_table) :
          code_table[i].additions = 0 /\ code_table[i].deletions = 0

C5_DegenerateSeries ==
    (Called("plot_data") /\ ZeroChurn(code_df)) =>
        /\ raised = "DegenerateSeries"
        /\ scaling_factor.k # "num" /\ scaling_factor.k # "inf"
        /\ "Code frequency withing contributor activity" \notin Titles
        /\ "Raw code frequency" \in Titles
        /\ "Raw commit activity" \in Titles

(* C6: the scale factor is applied only in the combined overlay: every     *)
(* series of the raw churn chart is the unscaled additions or deletions    *)
(* column of the churn table.  Stated for churn with a non-zero peak, so   *)
(* that the scale is a finite number and a series that differs from the    *)
(* column differs because the factor was applied to it.                    *)

C6_RawChurnUnscaled ==
    \A i \in 1..Len(figs) :
        (figs[i].title = "Raw code frequency" /\ Peak(code_df) > 0) =>
            \A t \in 1..Len(figs[i].traces) :
                \/ SameSeries(figs[i].traces[t].y, Raw(Column(code_df, "additions")))
                \/ SameSeries(figs[i].traces[t].y, Raw(Column(code_df, "deletions")))

(* C7: if a contributor record lacks its weeks list or its author,         *)
(* process_data ends in an error for the malformed shape and nothing is    *)
(* emitted: no table is returned, no chart composed, also when earlier     *)
(* records were well-formed.                                               *)

MalformedPayload == {"KeyError: 'author'", "KeyError: 'weeks'", "KeyError: 'w'"}

C7_MalformedNoPartialOutput ==
    (Called("process_data") /\ ~WellFormed(commit_activity)) =>
        /\ raised \in MalformedPayload
        /\ pc = "done"
        /\ code_df = <<>>
        /\ commit_df = <<>>
        /\ figs = <<>>
        /\ ~Called("plot_data")

C7_Witness ==
    /\ pc = "done"
    /\ raised = "KeyError: 'weeks'"
    /\ Len(commit_activity) = 2
    /\ commit_activity[1].has_author
    /\ commit_activity[1].has_weeks
    /\ Len(commit_activity[1].weeks) = 2
    /\ ~commit_activity[2].has_weeks

(* C8: the exit code is non-zero on every fatal error (missing or          *)
(* incomplete credentials, a failed fetch, a malformed payload) and zero   *)
(* only after the charts have been produced.                               *)

FatalError == raised # "none" \/ "fail" \in Range(responses)

C8_ExitCode ==
    pc = "done" =>
        /\ (FatalError => exit_code # 0)
        /\ (exit_code = 0 => Len(figs) = 3)

(* C9: the stages run strictly in the order credentials, fetches,          *)
(* normalization, charts; a failed fetch ends the run at once: no          *)
(* normalization or chart without two successful fetches, no second fetch  *)
(* after a failed first one, no fetch retried.                             *)

StageOrder ==
    <<"ensure_env_file", "load_env_variables", "fetch_code_frequency",
      "fetch_commit_activity", "process_data", "plot_data">>

C9_StageOrder ==
    /\ Len(calls) <= Len(StageOrder)
    /\ calls = SubSeq(StageOrder, 1, Len(calls))
    /\ (Called("process_data") \/ Called("plot_data") \/ pc \in {"process_data", "plot_data"})
          => responses = <<"ok", "ok">>
    /\ (responses # <<>> /\ responses[1] = "fail") => ~Called("fetch_commit_activity")
    /\ "fail" \in Range(responses) => pc = "done"

C9_Witness ==
    /\ pc = "done"
    /\ responses = <<"ok", "fail">>
    /\ calls = SubSeq(StageOrder, 1, 4)

(* C10: a contributor record whose weeks list is empty is not an error:    *)
(* process_data completes, that contributor adds no sample, the samples of *)
(* the other contributors are emitted unchanged.                           *)

C10_EmptyWeeks ==
    (Called("process_data") /\ WellFormed(commit_activity)
        /\ commit_activity # <<>> /\ ~NoEmptyWeeks(commit_activity)) =>
        /\ Returned
        /\ commit_df = Concat([i \in 1..Len(commit_activity) |->
                                  SamplesOfRecord(commit_activity[i])])

=============================================================================
